---------------------------- MODULE Spec2Model ----------------------------
(***************************************************************************)
(* A model of the link-graph audit engine of src/audit.py: one run of      *)
(* main() over a site tree (scan, per-document audit, orphan detection,    *)
(* concurrent external probes, report).                                    *)
(*                                                                         *)
(* Strings (hrefs, URLs, paths) are sequences of tokens; every string      *)
(* method the code uses (startswith, endswith, `in`, split, lstrip,        *)
(* rstrip, slicing, os.path.join / relpath / isfile / isdir) is an         *)
(* operator over those sequences that computes what the method computes.   *)
(*                                                                         *)
(* Standard output is a UTF-8 stream with strict error handling (Python's  *)
(* default in a UTF-8 locale): print raises UnicodeEncodeError on a string *)
(* that holds a lone surrogate, which is how os.walk names a file whose    *)
(* name is not valid UTF-8.                                                *)
(***************************************************************************)
EXTENDS Integers, Sequences, FiniteSets, TLC

(***************************************************************************)
(* Bounds of the model (not program constants).                            *)
(***************************************************************************)
\* total number of page features (anchors, heading defects, missing schema)
\* the documents of one corpus carry, bulk pages apart
MaxFeatures == 2
\* number of copies of one anchor on a bulk page
BulkLinks == 11
\* number of probes that return or raise within one explored run
MaxAnswered == 2
\* number of external URLs beyond the size of the worker pool on the page of
\* the pool run
ExtraUrls == 1

(***************************************************************************)
(* String helpers.                                                         *)
(***************************************************************************)
\* str.startswith(p)
StartsWith(s, p) ==
    /\ Len(p) <= Len(s)
    /\ SubSeq(s, 1, Len(p)) = p

\* str.endswith(p)
EndsWith(s, p) ==
    /\ Len(p) <= Len(s)
    /\ SubSeq(s, Len(s) - Len(p) + 1, Len(s)) = p

\* F applied to the value of v (v is evaluated once)
With(v, F(_)) == CHOOSE r \in { F(x) : x \in {v} } : TRUE

\* p in s (substring)
Contains(s, p) ==
    \E t \in {s} : \E i \in 1..(Len(t) - Len(p) + 1) : SubSeq(t, i, i + Len(p) - 1) = p

\* s.split(sep)[0]: the part of s before the first occurrence of token sep
RECURSIVE SplitFirst(_, _)
SplitFirst(s, sep) ==
    IF s = <<>> \/ Head(s) = sep THEN <<>>
    ELSE <<Head(s)>> \o SplitFirst(Tail(s), sep)

\* s.lstrip('/')
RECURSIVE LStripSlash(_)
LStripSlash(s) ==
    IF s # <<>> /\ Head(s) = "/" THEN LStripSlash(Tail(s)) ELSE s

\* s.rstrip('/')
RECURSIVE RStripSlash(_)
RStripSlash(s) ==
    IF s # <<>> /\ s[Len(s)] = "/" THEN RStripSlash(SubSeq(s, 1, Len(s) - 1))
    ELSE s

\* the sequence s repeated n times
RECURSIVE Repeat(_, _)
Repeat(s, n) == IF n = 0 THEN <<>> ELSE s \o Repeat(s, n - 1)

\* the sum of f[i].penalty over a sequence of issues
RECURSIVE SumPenalty(_)
SumPenalty(q) == IF q = <<>> THEN 0 ELSE Head(q).penalty + SumPenalty(Tail(q))

Max(a, b) == IF a >= b THEN a ELSE b

(***************************************************************************)
(* Paths.  A path is a token sequence in which "/" separates segments.     *)
(***************************************************************************)
\* the segments of a path: the maximal runs of tokens between "/" tokens,
\* empty segments dropped (as the OS and normpath drop them)
RECURSIVE SegsFrom(_, _)
SegsFrom(p, cur) ==
    IF p = <<>> THEN (IF cur = <<>> THEN <<>> ELSE <<cur>>)
    ELSE IF Head(p) = "/"
         THEN (IF cur = <<>> THEN <<>> ELSE <<cur>>) \o SegsFrom(Tail(p), <<>>)
         ELSE SegsFrom(Tail(p), Append(cur, Head(p)))

Segs(p) == SegsFrom(p, <<>>)

\* os.path.normpath on segments: "." dropped, ".." removes the segment before
\* it (and is kept when there is none: the path leaves the root)
RECURSIVE NormSegs(_, _)
NormSegs(segs, acc) ==
    IF segs = <<>> THEN acc
    ELSE IF Head(segs) = <<".">> THEN NormSegs(Tail(segs), acc)
    ELSE IF Head(segs) = <<"..">> /\ acc # <<>> /\ acc[Len(acc)] # <<"..">>
         THEN NormSegs(Tail(segs), SubSeq(acc, 1, Len(acc) - 1))
    ELSE NormSegs(Tail(segs), Append(acc, Head(segs)))

\* segments joined with "/"
RECURSIVE JoinSegs(_)
JoinSegs(segs) ==
    IF segs = <<>> THEN <<>>
    ELSE IF Len(segs) = 1 THEN Head(segs)
    ELSE Head(segs) \o <<"/">> \o JoinSegs(Tail(segs))


(***************************************************************************)
(* The site trees the runs are checked on.  A tree is its set of files,    *)
(* each a path relative to the site root; its directories are the proper   *)
(* prefixes of its files.  `canonical` is the href of the canonical link   *)
(* of index.html, `hrefs` the anchor targets its pages are written with.   *)
(***************************************************************************)
IndexHtml == <<"index", ".html">>
AHtml == <<"a", ".html">>
DIndexHtml == <<"d", "/", "index", ".html">>
XHtml == <<"x", ".html">>
XIndexHtml == <<"x", "/", "index", ".html">>
DPHtml == <<"d", "/", "p", ".html">>
\* a document in a directory named google-ads
AdsPHtml == <<"google", "-ads", "/", "p", ".html">>
Html404 == <<"404", ".html">>
StyleCss == <<"style", ".css">>
ModuleHtml == <<"node_modules", "/", "m", ".html">>
\* a file whose name holds a byte that is not UTF-8 (b'caf\xe9.html'):
\* os.walk names it with the lone surrogate U+DCE9
CafeHtml == <<"caf", "<dce9>", ".html">>

SiteUrl == <<"https://", "site.com", "/">>
Ext1 == <<"https://", "ext.com", "/", "p">>
Ext2 == <<"http://", "other.org">>
\* absolute URLs of the site itself, and a URL of another host that the
\* base URL is a string prefix of
AbsA == <<"https://", "site.com", "/", "a">>
AbsMissing == <<"https://", "site.com", "/", "missing">>
AbsOther == <<"https://", "site.com", ".evil.org", "/", "x">>
\* the canonical URL without its trailing slash: the base URL itself
BaseHref == <<"https://", "site.com">>

Sites ==
    { [ files |-> { IndexHtml, AHtml, <<"404", ".html">>,
                    <<"google", "1", ".html">>, <<"style", ".css">>,
                    <<"node_modules", "/", "m", ".html">> },
        canonical |-> SiteUrl,
        hrefs |-> { <<"/", "a">>, <<"a", ".html">>, <<"/", "missing">>,
                    Ext1, Ext2 } ],
      [ files |-> { IndexHtml, AHtml, DIndexHtml,
                    <<"assets", "/", "style", ".css">> },
        canonical |-> SiteUrl,
        hrefs |-> { <<"/", "d">>, <<"/", "a">>, <<"..", "/", "a">>,
                    <<"/", "assets">>, <<"mailto:", "me">>, Ext1 } ],
      [ files |-> { IndexHtml, CafeHtml },
        canonical |-> SiteUrl,
        hrefs |-> { <<"/">>, <<"/", "missing">> } ],
      \* a tree without index.html
      [ files |-> { AHtml },
        canonical |-> <<>>,
        hrefs |-> { AbsA, Ext1, <<"/", "a">> } ],
      \* hrefs with a fragment or a query
      [ files |-> { IndexHtml, AHtml },
        canonical |-> SiteUrl,
        hrefs |-> { <<"/", "a", "#", "s">>, <<"/", "missing", "#", "s">>,
                    <<"/", "a", "?", "q">>, <<"/", "missing", "?", "q">>,
                    <<"missing", ".html">> } ],
      \* absolute hrefs on a site with a base URL
      [ files |-> { IndexHtml, AHtml },
        canonical |-> SiteUrl,
        hrefs |-> { AbsA, AbsMissing, AbsOther, Ext1 } ],
      \* a document and a directory of the same name
      [ files |-> { IndexHtml, XHtml, XIndexHtml },
        canonical |-> SiteUrl,
        hrefs |-> { <<"/", "x">>, <<"/", "x", ".html">>, <<"/", "x", "/">>,
                    <<"x">> } ],
      \* links to the home page by its absolute URL, from a subdirectory too
      [ files |-> { IndexHtml, DPHtml },
        canonical |-> SiteUrl,
        hrefs |-> { BaseHref, SiteUrl } ],
      \* links to files the scanner leaves out, and a document in a
      \* directory whose name holds an ignore-file pattern
      [ files |-> { IndexHtml, Html404, StyleCss, ModuleHtml, AdsPHtml },
        canonical |-> SiteUrl,
        hrefs |-> { <<"/", "404">>, <<"/", "style", ".css">>,
                    <<"/", "node_modules", "/", "m">>,
                    <<"/", "google", "-ads", "/", "p">> } ] }

\* the status codes a probe may return
StatusCodes == {200, 399, 400, 404}

(***************************************************************************)
(* State.                                                                  *)
(***************************************************************************)
VARIABLES
    site,            \* the file tree and canonical document the run reads
    base_url,        \* AuditConfig.base_url (<<>> is None)
    pc,              \* position of main() ("crashed": ended by an exception)
    files,           \* SEOAuditor.files (paths relative to ROOT_DIR)
    next,            \* index in files of the next document main() audits
    internal_links,  \* SEOAuditor.internal_links: target -> list of sources
    external_links,  \* SEOAuditor.external_links
    score,           \* SEOAuditor.score
    issues,          \* SEOAuditor.issues
    futures,         \* future_to_url: url -> state and result of its future
    report,          \* what generate_report printed
    audited,         \* history: per audited document, what audit_file read
    probes,          \* history: per URL, the number of _check_url calls
    budget,          \* page features still available to the corpus
    element,         \* src/build.py: the anchors of the element being built
    original,        \* history: the anchors as they were first read
    runs             \* history: the _standardize_links passes so far, each
                     \* with its convert_anchors flag and its result

\* the state of the build pipeline (src/build.py), which the audit leaves alone
build_vars == <<element, original, runs>>

vars == <<site, base_url, pc, files, next, internal_links, external_links,
          score, issues, futures, report, audited, probes, budget, build_vars>>

\* ROOT_DIR (src/audit.py:14), the directory of the script
ROOT_DIR == <<"/", "srv", "/", "site">>

GLOBAL == <<"GLOBAL">>

(***************************************************************************)
(* The file system under ROOT_DIR.                                         *)
(***************************************************************************)
\* the nodes (segment sequences from "/") that are files
FileNodes == { Segs(ROOT_DIR) \o Segs(f) : f \in site.files }

IsPrefix(p, s) == Len(p) <= Len(s) /\ SubSeq(s, 1, Len(p)) = p

\* a node is a directory when it is a proper prefix of a file, or ROOT_DIR
\* or one of its ancestors
IsDirNode(n) ==
    \/ IsPrefix(n, Segs(ROOT_DIR))
    \/ \E f \in FileNodes : Len(n) < Len(f) /\ IsPrefix(n, f)

NoNode == << <<"?">> >>

\* the node a path names, walking its segments as the OS does: every
\* segment is looked up in a directory, ".." is that directory's parent
RECURSIVE Walk(_, _)
Walk(segs, cur) ==
    IF segs = <<>> THEN cur
    ELSE IF ~IsDirNode(cur) THEN NoNode
    ELSE IF Head(segs) = <<".">> THEN Walk(Tail(segs), cur)
    ELSE IF Head(segs) = <<"..">>
         THEN Walk(Tail(segs), SubSeq(cur, 1, Max(Len(cur) - 1, 0)))
    ELSE Walk(Tail(segs), Append(cur, Head(segs)))

\* os.path.isfile(p); a file named with a trailing "/" is not found
isfile(p) ==
    /\ p # <<>>
    /\ p[Len(p)] # "/"
    /\ Walk(Segs(p), <<>>) \in FileNodes

\* os.path.isdir(p)
isdir(p) ==
    /\ p # <<>>
    /\ LET n == Walk(Segs(p), <<>>) IN n # NoNode /\ IsDirNode(n)

\* os.path.join(a, b)
join(a, b) ==
    IF b # <<>> /\ Head(b) = "/" THEN b
    ELSE IF a = <<>> \/ a[Len(a)] = "/" THEN a \o b
    ELSE a \o <<"/">> \o b

\* os.path.dirname(p): p up to its last "/", trailing slashes removed
\* unless the result is the root
RECURSIVE dirname(_)
dirname(p) ==
    IF p = <<>> THEN <<>>
    ELSE IF p[Len(p)] = "/"
         THEN (LET d == RStripSlash(p) IN IF d = <<>> THEN <<"/">> ELSE d)
    ELSE dirname(SubSeq(p, 1, Len(p) - 1))

\* number of leading segments two segment sequences share
RECURSIVE CommonLen(_, _)
CommonLen(a, b) ==
    IF a = <<>> \/ b = <<>> \/ Head(a) # Head(b) THEN 0
    ELSE 1 + CommonLen(Tail(a), Tail(b))

\* os.path.relpath(p, ROOT_DIR)
relpath(p) ==
    With(NormSegs(Segs(p), <<>>), LAMBDA ns :
        LET rs == Segs(ROOT_DIR)
            k == CommonLen(ns, rs)
            rel == Repeat(<< <<"..">> >>, Len(rs) - k) \o SubSeq(ns, k + 1, Len(ns))
        IN IF rel = <<>> THEN <<".">> ELSE JoinSegs(rel))

(***************************************************************************)
(* AuditConfig.                                                            *)
(***************************************************************************)
ignore_paths == { <<".git">>, <<"node_modules">>, <<"__pycache__">>, <<".DS_Store">> }
ignore_urls == { <<"/", "go", "/">>, <<"cdn-cgi">>, <<"javascript:">>,
                 <<"mailto:">>, <<"#">>, <<"tel:">> }
ignore_files == { <<"google">>, <<"404", ".html">> }

INDEX_FILE == join(ROOT_DIR, IndexHtml)

\* AuditConfig._load_from_index: base_url is the canonical href without its
\* trailing slashes, None (<<>>) when index.html is absent or has none
LoadBaseUrl(s) ==
    IF IndexHtml \notin s.files THEN <<>>
    ELSE RStripSlash(s.canonical)

should_ignore_path(path) == \E ig \in ignore_paths : Contains(path, ig)

should_ignore_file(filename) == \E ig \in ignore_files : Contains(filename, ig)

should_ignore_url(url) ==
    \E ig \in ignore_urls : StartsWith(url, ig) \/ Contains(url, ig)

(***************************************************************************)
(* scan_files.                                                             *)
(***************************************************************************)
\* the last segment of a relative path
basename(f) == LET sg == Segs(f) IN IF sg = <<>> THEN <<>> ELSE sg[Len(sg)]

\* os.walk reaches the directory of f: every directory on the way from
\* ROOT_DIR passed the pruning test, which reads the directory's full path
Walked(f) ==
    LET sg == Segs(f) IN
    \A k \in 1..(Len(sg) - 1) :
        ~should_ignore_path(join(ROOT_DIR, JoinSegs(SubSeq(sg, 1, k))))

\* the files scan_files keeps, as paths relative to ROOT_DIR
Discovered(s) ==
    { f \in s.files :
        /\ Walked(f)
        /\ EndsWith(basename(f), <<".html">>)
        /\ ~should_ignore_file(basename(f)) }

\* the orders os.walk (top-down) can list a set of files in: the files of a
\* directory come before the files of the directories below it; the order
\* inside one directory is the listing order of the OS, which is arbitrary
WalkOrders(fs) ==
    { q \in [1..Cardinality(fs) -> fs] :
        /\ \A i, j \in DOMAIN q : i # j => q[i] # q[j]
        /\ \A i, j \in DOMAIN q :
              i < j => ~( /\ dirname(q[j]) # dirname(q[i])
                          /\ IsPrefix(Segs(dirname(q[j])), Segs(dirname(q[i]))) ) }

(***************************************************************************)
(* Issues.  An issue is the dict _add_issue appends (level, message,       *)
(* context); the message is kept as its kind, the href or URL it quotes    *)
(* and the status code it quotes; penalty is the penalty it was recorded   *)
(* with.                                                                   *)
(***************************************************************************)
Issue(level, kind, href, code, context, penalty) ==
    [level |-> level, kind |-> kind, href |-> href, code |-> code,
     context |-> context, penalty |-> penalty]

\* print(s) returns: s holds no lone surrogate
Printable(s) == ~Contains(s, <<"<dce9>">>)

\* the auditor's mutable fields, as one record the methods transform; exc
\* is TRUE while an exception propagates (the statements it passes are
\* skipped)
Auditor ==
    [issues |-> issues, score |-> score,
     internal_links |-> internal_links, external_links |-> external_links,
     exc |-> FALSE]

\* variant: the issue is put at the front of the list
_add_issue_Prepend(st, level, kind, href, code, context, penalty) ==
    IF st.exc THEN st
    ELSE [st EXCEPT !.issues = <<Issue(level, kind, href, code, context, penalty)>> \o @,
                    !.score = @ + penalty,
                    !.exc = ~Printable(context) \/ ~Printable(href)]

\* variant: the running score is floored at 0 whenever a penalty is applied
_add_issue_Clamped(st, level, kind, href, code, context, penalty) ==
    IF st.exc THEN st
    ELSE [st EXCEPT !.issues = Append(@, Issue(level, kind, href, code, context, penalty)),
                    !.score = Max(0, @ + penalty),
                    !.exc = ~Printable(context) \/ ~Printable(href)]

\* SEOAuditor._add_issue: the issue is appended and the penalty applied
\* before the line is printed (line 223), which raises on an unprintable
\* context or message
_add_issue(st, level, kind, href, code, context, penalty) ==
    IF st.exc THEN st
    ELSE [st EXCEPT !.issues = Append(@, Issue(level, kind, href, code, context, penalty)),
                    !.score = @ + penalty,
                    !.exc = ~Printable(context) \/ ~Printable(href)]

\* SEOAuditor._check_semantics
_check_semantics(st, page, rel_path) ==
    LET s1 == IF page.h1s = 0
              THEN _add_issue(st, "ERROR", "Missing <h1> tag", <<>>, 0, rel_path, -5)
              ELSE IF page.h1s > 1
              THEN _add_issue(st, "WARN", "Multiple <h1> tags found", <<>>, 0, rel_path, -2)
              ELSE st
    IN IF ~page.schema
       THEN _add_issue(s1, "WARN", "Missing Schema", <<>>, 0, rel_path, -2)
       ELSE s1

(***************************************************************************)
(* _analyze_internal_link.                                                 *)
(***************************************************************************)
\* lines 146-153: the href without fragment and query, mapped to a local path
LocalTarget(href, source_path) ==
    LET target_path == SplitFirst(SplitFirst(href, "#"), "?")
    IN IF StartsWith(target_path, <<"/">>)
       THEN join(ROOT_DIR, LStripSlash(target_path))
       ELSE join(dirname(join(ROOT_DIR, source_path)), target_path)

\* variant: the index.html case is left out
Exists_NoIndexCase(local_target) ==
    \/ isfile(local_target)
    \/ isfile(local_target \o <<".html">>)

\* variant: any directory counts, with or without an index.html
Exists_AnyDirectory(local_target) ==
    \/ isfile(local_target)
    \/ isfile(local_target \o <<".html">>)
    \/ isdir(local_target)

\* lines 156-166: the three existence checks
Exists(local_target) ==
    \/ isfile(local_target)
    \/ isfile(local_target \o <<".html">>)
    \/ (isdir(local_target) /\ isfile(join(local_target, IndexHtml)))

\* variant: the index.html of a directory is preferred to the ".html" file
NormalizedKey_IndexFirst(local_target) ==
    IF isfile(local_target) THEN relpath(local_target)
    ELSE IF isdir(local_target) /\ isfile(join(local_target, IndexHtml))
         THEN relpath(join(local_target, IndexHtml))
    ELSE IF isfile(local_target \o <<".html">>)
         THEN relpath(local_target \o <<".html">>)
    ELSE <<>>

\* variant: only a document the scanner discovered gets a key
NormalizedKey_DocumentsOnly(local_target) ==
    LET key == IF isfile(local_target) THEN relpath(local_target)
               ELSE IF isfile(local_target \o <<".html">>)
                    THEN relpath(local_target \o <<".html">>)
               ELSE IF isdir(local_target) /\ isfile(join(local_target, IndexHtml))
                    THEN relpath(join(local_target, IndexHtml))
               ELSE <<>>
    IN IF \E k \in DOMAIN files : relpath(files[k]) = key THEN key ELSE <<>>

\* lines 173-179: the key of the file the first succeeding check found
NormalizedKey(local_target) ==
    IF isfile(local_target) THEN relpath(local_target)
    ELSE IF isfile(local_target \o <<".html">>)
         THEN relpath(local_target \o <<".html">>)
    ELSE IF isdir(local_target) /\ isfile(join(local_target, IndexHtml))
         THEN relpath(join(local_target, IndexHtml))
    ELSE <<>>

\* lines 181-184: source_path appended to the list under key
RecordLink(links, key, source_path) ==
    [k \in DOMAIN links \cup {key} |->
        IF k = key
        THEN (IF key \in DOMAIN links THEN Append(links[key], source_path)
              ELSE <<source_path>>)
        ELSE links[k]]

\* variant: the two warnings are recorded only for an href that resolves
_analyze_internal_link_WarnResolved(st, href, source_path) ==
    LET local_target == LocalTarget(href, source_path)
        s1 == IF EndsWith(href, <<".html">>) \/ EndsWith(href, <<".htm">>)
              THEN _add_issue(st, "WARN", "Link contains .html extension",
                              href, 0, source_path, -2)
              ELSE st
        s2 == IF ~StartsWith(href, <<"/">>)
              THEN _add_issue(s1, "WARN", "Link uses relative path",
                              href, 0, source_path, -2)
              ELSE s1
    IN IF ~Exists(local_target)
       THEN _add_issue(st, "ERROR", "Dead link detected", href, 0, source_path, -10)
       ELSE IF s2.exc THEN s2
       ELSE LET normalized_key == NormalizedKey(local_target)
            IN IF normalized_key # <<>>
               THEN [s2 EXCEPT !.internal_links =
                        RecordLink(@, normalized_key, source_path)]
               ELSE s2

\* variant: a dead link leaves a key for its target in the graph
_analyze_internal_link_KeyForDead(st, href, source_path) ==
    LET s1 == IF EndsWith(href, <<".html">>) \/ EndsWith(href, <<".htm">>)
              THEN _add_issue(st, "WARN", "Link contains .html extension",
                              href, 0, source_path, -2)
              ELSE st
        s2 == IF ~StartsWith(href, <<"/">>)
              THEN _add_issue(s1, "WARN", "Link uses relative path",
                              href, 0, source_path, -2)
              ELSE s1
        local_target == LocalTarget(href, source_path)
    IN IF s2.exc THEN s2
       ELSE IF ~Exists(local_target)
       THEN [_add_issue(s2, "ERROR", "Dead link detected", href, 0, source_path, -10)
               EXCEPT !.internal_links = RecordLink(@, relpath(local_target), source_path)]
       ELSE LET normalized_key == NormalizedKey(local_target)
            IN IF normalized_key # <<>>
               THEN [s2 EXCEPT !.internal_links =
                        RecordLink(@, normalized_key, source_path)]
               ELSE s2

\* SEOAuditor._analyze_internal_link, lines 132-184
_analyze_internal_link(st, href, source_path) ==
    LET s1 == IF EndsWith(href, <<".html">>) \/ EndsWith(href, <<".htm">>)
              THEN _add_issue(st, "WARN", "Link contains .html extension",
                              href, 0, source_path, -2)
              ELSE st
        s2 == IF ~StartsWith(href, <<"/">>)
              THEN _add_issue(s1, "WARN", "Link uses relative path",
                              href, 0, source_path, -2)
              ELSE s1
        local_target == LocalTarget(href, source_path)
    IN IF s2.exc THEN s2
       ELSE IF ~Exists(local_target)
       THEN _add_issue(s2, "ERROR", "Dead link detected", href, 0, source_path, -10)
       ELSE LET normalized_key == NormalizedKey(local_target)
            IN IF normalized_key # <<>>
               THEN [s2 EXCEPT !.internal_links =
                        RecordLink(@, normalized_key, source_path)]
               ELSE s2

(***************************************************************************)
(* audit_file.                                                             *)
(***************************************************************************)
\* str.strip(): leading and trailing blanks removed
RECURSIVE Strip(_)
Strip(s) ==
    IF s = <<>> THEN s
    ELSE IF Head(s) = " " THEN Strip(Tail(s))
    ELSE IF s[Len(s)] = " " THEN Strip(SubSeq(s, 1, Len(s) - 1))
    ELSE s

IsHttp(href) == StartsWith(href, <<"http://">>) \/ StartsWith(href, <<"https://">>)

\* variant: the prefix test is made without testing that a base URL is set
AuditAnchor_AnyBase(st, raw, rel_path) ==
    LET href == Strip(raw) IN
    IF st.exc \/ href = <<>> \/ should_ignore_url(href) THEN st
    ELSE IF IsHttp(href)
    THEN IF StartsWith(href, base_url)
         THEN LET path == SubSeq(href, Len(base_url) + 1, Len(href))
              IN _add_issue(_analyze_internal_link(st, path, rel_path),
                            "WARN", "Internal link uses absolute URL",
                            href, 0, rel_path, -2)
         ELSE [st EXCEPT !.external_links = @ \cup {href}]
    ELSE _analyze_internal_link(st, href, rel_path)

\* variant: an absolute href of the site is also added to the external set
AuditAnchor_AlsoExternal(st, raw, rel_path) ==
    LET href == Strip(raw) IN
    IF st.exc \/ href = <<>> \/ should_ignore_url(href) THEN st
    ELSE IF IsHttp(href)
    THEN IF base_url # <<>> /\ StartsWith(href, base_url)
         THEN LET path == SubSeq(href, Len(base_url) + 1, Len(href))
                  s1 == _add_issue(_analyze_internal_link(st, path, rel_path),
                                   "WARN", "Internal link uses absolute URL",
                                   href, 0, rel_path, -2)
              IN [s1 EXCEPT !.external_links = @ \cup {href}]
         ELSE [st EXCEPT !.external_links = @ \cup {href}]
    ELSE _analyze_internal_link(st, href, rel_path)

\* lines 96-114: the body of the anchor loop, for one anchor
AuditAnchor(st, raw, rel_path) ==
    LET href == Strip(raw) IN
    IF st.exc \/ href = <<>> \/ should_ignore_url(href) THEN st
    ELSE IF IsHttp(href)
    THEN IF base_url # <<>> /\ StartsWith(href, base_url)
         THEN LET path == SubSeq(href, Len(base_url) + 1, Len(href))
              IN _add_issue(_analyze_internal_link(st, path, rel_path),
                            "WARN", "Internal link uses absolute URL",
                            href, 0, rel_path, -2)
         ELSE [st EXCEPT !.external_links = @ \cup {href}]
    ELSE _analyze_internal_link(st, href, rel_path)

\* lines 95-114: the anchor loop
RECURSIVE AuditAnchors(_, _, _)
AuditAnchors(st, anchors, rel_path) ==
    IF anchors = <<>> THEN st
    ELSE AuditAnchors(AuditAnchor(st, Head(anchors), rel_path), Tail(anchors), rel_path)

\* What audit_file reads.  A page is the number of h1 elements, whether a
\* JSON-LD script is present, and the hrefs of its anchors in document
\* order; `readable` is FALSE when open, read or parse raises (lines 87-89).
BlankPage == [h1s |-> 1, schema |-> TRUE, anchors |-> <<>>]

\* lines 87-114: the body of the try statement
audit_file_body(st, rel_path, page, readable) ==
    IF ~readable THEN [st EXCEPT !.exc = TRUE]
    ELSE AuditAnchors(_check_semantics(st, page, rel_path), page.anchors, rel_path)

\* how the try statement ended: "ok", "read" (lines 87-89 raised) or
\* "raise" (a statement of lines 92-114 raised)
Outcome(body, readable) ==
    IF ~readable THEN "read" ELSE IF body.exc THEN "raise" ELSE "ok"

\* lines 116-117: the handler records the failure; its own print may raise,
\* and that exception leaves audit_file
handler(body, rel_path) ==
    IF body.exc
    THEN _add_issue([body EXCEPT !.exc = FALSE], "ERROR", "Failed to process file",
                    <<>>, 0, rel_path, 0)
    ELSE body

\* SEOAuditor.audit_file, lines 83-117
audit_file_result(st, filepath, page, readable) ==
    With(relpath(filepath), LAMBDA rel_path :
        handler(audit_file_body(st, rel_path, page, readable), rel_path))

(***************************************************************************)
(* check_orphans, generate_report.                                         *)
(***************************************************************************)
\* variant: every index.html, in whatever directory, is taken for the home
IsHome_AnyIndex(rel_path) == basename(rel_path) = IndexHtml

\* line 209: the home document is index.html at the site root
IsHome(rel_path) == rel_path = IndexHtml

\* SEOAuditor.check_orphans, lines 207-213, over the files still to visit
RECURSIVE check_orphans_result(_, _)
check_orphans_result(st, fls) ==
    IF fls = <<>> \/ st.exc THEN st
    ELSE With(relpath(Head(fls)), LAMBDA rel_path :
         IF IsHome(rel_path) \/ should_ignore_file(rel_path)
         THEN check_orphans_result(st, Tail(fls))
         ELSE IF rel_path \notin DOMAIN st.internal_links
         THEN check_orphans_result(
                  _add_issue(st, "WARN", "Orphan page", <<>>, 0, rel_path, -5),
                  Tail(fls))
         ELSE check_orphans_result(st, Tail(fls)))

InitialScore == 100
max_workers == 10
TopN == 10
DeadStatus == 400

IsError(i) == i.level = "ERROR"
NotError(i) == i.level # "ERROR"

\* variant: the issues are listed as they were recorded
sorted_issues_Unsorted(q) == q

\* line 237: sorted() is stable, ERROR issues first
sorted_issues(q) == SelectSeq(q, IsError) \o SelectSeq(q, NotError)

\* variant: the report shows the running score as it is
FinalScore_NoFloor(sc) == sc

\* line 226: the score is floored when the report is rendered
FinalScore(sc) == Max(0, sc)

NoReport == [shown |-> FALSE, score |-> 0, top |-> <<>>, more |-> 0,
             files |-> 0, external |-> 0]

(***************************************************************************)
(* The inputs of a run.                                                    *)
(***************************************************************************)
AnchorLists(s) ==
    UNION { [1..n -> s.hrefs] : n \in 0..MaxFeatures }
      \cup { Repeat(<<h>>, BulkLinks) : h \in s.hrefs }

\* the features a page spends: a bulk page's anchors count once
Cost(page) ==
    (IF page.h1s # 1 THEN 1 ELSE 0) + (IF page.schema THEN 0 ELSE 1)
      + (IF Len(page.anchors) > MaxFeatures THEN 1 ELSE Len(page.anchors))

\* a document that cannot be read spends one feature
FailCost(readable) == IF readable THEN 0 ELSE 1

Pages(s, b) ==
    { pg \in [h1s : 0..2, schema : BOOLEAN, anchors : AnchorLists(s)] :
        Cost(pg) <= b }

(***************************************************************************)
(* Init and the steps of main().                                           *)
(***************************************************************************)
Init ==
    /\ site \in Sites
    /\ base_url = LoadBaseUrl(site)
    /\ pc = "scan"
    /\ files = <<>>
    /\ next = 1
    /\ internal_links = <<>>
    /\ external_links = {}
    /\ score = InitialScore
    /\ issues = <<>>
    /\ futures = <<>>
    /\ report = NoReport
    /\ audited = <<>>
    /\ probes = <<>>
    /\ budget = MaxFeatures
    /\ element = <<>>
    /\ original = <<>>
    /\ runs = <<>>

\* main() line 257
scan_files ==
    /\ pc = "scan"
    /\ \E q \in WalkOrders(Discovered(site)) :
          files' = [i \in DOMAIN q |-> join(ROOT_DIR, q[i])]
    /\ next' = 1
    /\ pc' = "audit"
    /\ UNCHANGED <<site, base_url, internal_links, external_links, score,
                   issues, futures, report, audited, probes, budget,
                   build_vars>>

\* variant: the loop is left after its first iteration
AllAudited_AfterFirst == next > 1

\* main() lines 259-260: the loop over auditor.files has ended
AllAudited == next > Len(files)

\* main() lines 259-260: one iteration of the loop
audit_file ==
    /\ pc = "audit"
    /\ next <= Len(files)
    /\ ~AllAudited
    /\ \E page \in Pages(site, budget), readable \in BOOLEAN :
          /\ ~readable => page = BlankPage
          /\ Cost(page) + FailCost(readable) <= budget
          /\ \E rel_path \in {relpath(files[next])} :
             \E body \in {audit_file_body(Auditor, rel_path, page, readable)} :
             \E st \in {handler(body, rel_path)} :
                /\ issues' = st.issues
                /\ score' = st.score
                /\ internal_links' = st.internal_links
                /\ external_links' = st.external_links
                /\ audited' = Append(audited, [file |-> rel_path, page |-> page,
                                               outcome |-> Outcome(body, readable)])
                /\ pc' = IF st.exc THEN "crashed" ELSE pc
          /\ budget' = budget - Cost(page) - FailCost(readable)
    /\ next' = next + 1
    /\ UNCHANGED <<site, base_url, files, futures, report, probes,
                   build_vars>>

\* main() line 262
check_orphans ==
    /\ pc = "audit"
    /\ AllAudited
    /\ \E st \in {check_orphans_result(Auditor, files)} :
          /\ issues' = st.issues
          /\ score' = st.score
          /\ pc' = IF st.exc THEN "crashed" ELSE "external"
    /\ UNCHANGED <<site, base_url, files, next, internal_links, external_links,
                   futures, report, audited, probes, budget,
                   build_vars>>

\* variant: the futures are submitted while documents are still to be audited
submit_DuringAudit ==
    /\ pc \in {"audit", "external"}
    /\ futures' = [u \in external_links |->
                      [st |-> "pending", code |-> 0, raised |-> FALSE, seq |-> 1]]
    /\ probes' = [u \in external_links |-> 0]
    /\ pc' = "probe"
    /\ UNCHANGED <<site, base_url, files, next, internal_links, external_links,
                   score, issues, report, audited, budget,
                   build_vars>>

\* the orders a set of URLs can be listed in
Orders(us) ==
    { q \in [1..Cardinality(us) -> us] : \A i, j \in DOMAIN q : i # j => q[i] # q[j] }

\* the futures of line 190, submitted in the order ord; seq is the position
\* of the work item in the executor's queue
Submitted(ord) ==
    [u \in { ord[i] : i \in DOMAIN ord } |->
        [st |-> "pending", code |-> 0, raised |-> FALSE,
         seq |-> CHOOSE i \in DOMAIN ord : ord[i] = u]]

\* check_external_links line 190: one future per URL of the set, in the
\* iteration order of the set, which is arbitrary
submit ==
    /\ pc = "external"
    /\ \E ord \in Orders(external_links) : futures' = Submitted(ord)
    /\ probes' = [u \in external_links |-> 0]
    /\ pc' = "probe"
    /\ UNCHANGED <<site, base_url, files, next, internal_links, external_links,
                   score, issues, report, audited, budget,
                   build_vars>>

Running == { u \in DOMAIN futures : futures[u].st = "running" }

\* variant: a pending future starts whether or not a worker is free
worker_start_Unbounded(u) ==
    /\ pc = "probe"
    /\ futures[u].st = "pending"
    /\ \A v \in DOMAIN futures :
          futures[v].st = "pending" => futures[u].seq <= futures[v].seq
    /\ futures' = [futures EXCEPT ![u].st = "running"]
    /\ probes' = [probes EXCEPT ![u] = @ + 1]
    /\ UNCHANGED <<site, base_url, pc, files, next, internal_links, external_links,
                   score, issues, report, audited, budget,
                   build_vars>>

\* the probes that returned or raised
Answered == { u \in DOMAIN futures : futures[u].st \in {"done", "taken"} }

\* a free worker of the pool takes the work item at the head of the queue
\* (the pending future submitted first) and calls _check_url
worker_start(u) ==
    /\ pc = "probe"
    /\ futures[u].st = "pending"
    /\ \A v \in DOMAIN futures :
          futures[v].st = "pending" => futures[u].seq <= futures[v].seq
    /\ Cardinality(Running) < max_workers
    /\ futures' = [futures EXCEPT ![u].st = "running"]
    /\ probes' = [probes EXCEPT ![u] = @ + 1]
    /\ UNCHANGED <<site, base_url, pc, files, next, internal_links, external_links,
                   score, issues, report, audited, budget,
                   build_vars>>

\* variant: the worker itself records the issue of a dead URL
check_url_returns_Records(u) ==
    /\ pc = "probe"
    /\ futures[u].st = "running"
    /\ Cardinality(Answered) < MaxAnswered
    /\ \E code \in StatusCodes :
          /\ futures' = [futures EXCEPT ![u].st = "taken", ![u].code = code]
          /\ \E st \in {IF code >= DeadStatus
                          THEN _add_issue(Auditor, "ERROR", "External dead link", u,
                                          code, GLOBAL, -5)
                          ELSE Auditor} :
                /\ issues' = st.issues
                /\ score' = st.score
    /\ UNCHANGED <<site, base_url, pc, files, next, internal_links, external_links,
                   report, audited, probes, budget,
                   build_vars>>

\* _check_url returns the status code of the response
check_url_returns(u) ==
    /\ pc = "probe"
    /\ futures[u].st = "running"
    /\ Cardinality(Answered) < MaxAnswered
    /\ \E code \in StatusCodes :
          futures' = [futures EXCEPT ![u].st = "done", ![u].code = code]
    /\ UNCHANGED <<site, base_url, pc, files, next, internal_links, external_links,
                   score, issues, report, audited, probes, budget,
                   build_vars>>

\* _check_url raises (timeout, DNS failure, connection refused, ...)
check_url_raises(u) ==
    /\ pc = "probe"
    /\ futures[u].st = "running"
    /\ Cardinality(Answered) < MaxAnswered
    /\ futures' = [futures EXCEPT ![u].st = "done", ![u].raised = TRUE]
    /\ UNCHANGED <<site, base_url, pc, files, next, internal_links, external_links,
                   score, issues, report, audited, probes, budget,
                   build_vars>>

\* variant: status 400 itself is not counted as dead
collect_result_Above(st, u, fut) ==
    IF fut.raised
    THEN _add_issue(st, "WARN", "External check failed", u, 0, GLOBAL, 0)
    ELSE IF fut.code > DeadStatus
    THEN _add_issue(st, "ERROR", "External dead link", u, fut.code, GLOBAL, -5)
    ELSE st

\* variant: a failed probe is scored like a dead link
collect_result_FailureScored(st, u, fut) ==
    IF fut.raised
    THEN _add_issue(st, "ERROR", "External check failed", u, 0, GLOBAL, -5)
    ELSE IF fut.code >= DeadStatus
    THEN _add_issue(st, "ERROR", "External dead link", u, fut.code, GLOBAL, -5)
    ELSE st

\* lines 192-198: what the collector records for one completed future
collect_result(st, u, fut) ==
    IF fut.raised
    THEN _add_issue(st, "WARN", "External check failed", u, 0, GLOBAL, 0)
    ELSE IF fut.code >= DeadStatus
    THEN _add_issue(st, "ERROR", "External dead link", u, fut.code, GLOBAL, -5)
    ELSE st

\* lines 193-198: an exception of the try body (the print of line 196's
\* issue) is handled by line 198 as a failed check
collect(st, u, fut) ==
    With(collect_result(st, u, fut), LAMBDA r :
        IF r.exc /\ ~fut.raised
        THEN _add_issue([r EXCEPT !.exc = FALSE], "WARN", "External check failed",
                        u, 0, GLOBAL, 0)
        ELSE r)

\* variant: the results are consumed in submission order
as_completed_InOrder(u) ==
    /\ pc = "probe"
    /\ futures[u].st = "done"
    /\ \A v \in DOMAIN futures :
          futures[v].seq < futures[u].seq => futures[v].st = "taken"
    /\ \E st \in {collect(Auditor, u, futures[u])} :
          /\ issues' = st.issues
          /\ score' = st.score
          /\ pc' = IF st.exc THEN "crashed" ELSE pc
    /\ futures' = [futures EXCEPT ![u].st = "taken"]
    /\ UNCHANGED <<site, base_url, files, next, internal_links, external_links,
                   report, audited, probes, budget,
                   build_vars>>

\* lines 191-198: as_completed yields a completed future; the loop body
as_completed(u) ==
    /\ pc = "probe"
    /\ futures[u].st = "done"
    /\ \E st \in {collect(Auditor, u, futures[u])} :
          /\ issues' = st.issues
          /\ score' = st.score
          /\ pc' = IF st.exc THEN "crashed" ELSE pc
    /\ futures' = [futures EXCEPT ![u].st = "taken"]
    /\ UNCHANGED <<site, base_url, files, next, internal_links, external_links,
                   report, audited, probes, budget,
                   build_vars>>

\* the loop of line 191 ends and the executor shuts down
check_external_links_returns ==
    /\ pc = "probe"
    /\ \A u \in DOMAIN futures : futures[u].st = "taken"
    /\ pc' = "report"
    /\ UNCHANGED <<site, base_url, files, next, internal_links, external_links,
                   score, issues, futures, report, audited, probes, budget,
                   build_vars>>

\* lines 237-238: the issues the report lists
TopIssues ==
    SubSeq(sorted_issues(issues), 1, IF Len(issues) < TopN THEN Len(issues) ELSE TopN)

\* main() line 265; the print of a listed issue (line 240) raises on an
\* unprintable context or message, before the final score is printed
generate_report ==
    /\ pc = "report"
    /\ score' = FinalScore(score)
    /\ IF \A k \in DOMAIN TopIssues :
             Printable(TopIssues[k].context) /\ Printable(TopIssues[k].href)
       THEN /\ report' = [shown |-> TRUE,
                          score |-> FinalScore(score),
                          top |-> TopIssues,
                          more |-> IF Len(issues) > TopN THEN Len(issues) - TopN ELSE 0,
                          files |-> Len(files),
                          external |-> Cardinality(external_links)]
            /\ pc' = "done"
       ELSE /\ report' = report
            /\ pc' = "crashed"
    /\ UNCHANGED <<site, base_url, files, next, internal_links, external_links,
                   issues, futures, audited, probes, budget,
                   build_vars>>

Next ==
    \/ scan_files
    \/ audit_file
    \/ check_orphans
    \/ submit
    \/ \E u \in DOMAIN futures : worker_start(u)
    \/ \E u \in DOMAIN futures : check_url_returns(u)
    \/ \E u \in DOMAIN futures : check_url_raises(u)
    \/ \E u \in DOMAIN futures : as_completed(u)
    \/ check_external_links_returns
    \/ generate_report

Spec == Init /\ [][Next]_vars


(***************************************************************************)
(* Vocabulary of the properties, stated on the site tree itself.           *)
(***************************************************************************)
\* the path audit_file hands to the resolver for an anchor's href, or
\* NotInternal when the anchor is skipped or external
NotInternal == <<"(none)">>

InternalPath(raw) ==
    LET href == Strip(raw) IN
    IF href = <<>> \/ should_ignore_url(href) THEN NotInternal
    ELSE IF IsHttp(href)
    THEN (IF base_url # <<>> /\ StartsWith(href, base_url)
          THEN SubSeq(href, Len(base_url) + 1, Len(href))
          ELSE NotInternal)
    ELSE href

\* the URL an anchor adds to the external set, or NotInternal
ExternalUrl(raw) ==
    LET href == Strip(raw) IN
    IF href # <<>> /\ ~should_ignore_url(href) /\ IsHttp(href)
       /\ ~(base_url # <<>> /\ StartsWith(href, base_url))
    THEN href ELSE NotInternal

\* the local path of an internal href, relative to the site root: the href
\* without fragment and query, taken from the root when it starts with "/"
\* and from the directory of the source document otherwise
SitePath(path, source) ==
    LET clean == SplitFirst(SplitFirst(path, "#"), "?")
        dir == dirname(source)
    IN IF StartsWith(clean, <<"/">>) THEN LStripSlash(clean)
       ELSE IF dir = <<>> THEN clean
       ELSE dir \o <<"/">> \o clean

\* the file of the tree a root-relative path names, <<>> when it names none
FileAt(q) == JoinSegs(NormSegs(Segs(q), <<>>))

IsSiteFile(q) == q # <<>> /\ q[Len(q)] # "/" /\ FileAt(q) \in site.files

IsSiteDir(q) ==
    \/ FileAt(q) = <<>>
    \/ \E f \in site.files :
          LET d == Segs(FileAt(q)) IN Len(d) < Len(Segs(f)) /\ IsPrefix(d, Segs(f))

WithIndex(q) == IF q = <<>> \/ q[Len(q)] = "/" THEN q \o IndexHtml
                ELSE q \o <<"/">> \o IndexHtml

\* the three resolution cases of the specification
CaseFile(path, source) == IsSiteFile(SitePath(path, source))
CaseHtml(path, source) == IsSiteFile(SitePath(path, source) \o <<".html">>)
CaseIndex(path, source) ==
    /\ IsSiteDir(SitePath(path, source))
    /\ IsSiteFile(WithIndex(SitePath(path, source)))

Resolves(path, source) ==
    CaseFile(path, source) \/ CaseHtml(path, source) \/ CaseIndex(path, source)

\* the document an internal href leads to (the file of the first case that
\* succeeds); only used where Resolves holds
TargetDoc(path, source) ==
    IF CaseFile(path, source) THEN FileAt(SitePath(path, source))
    ELSE IF CaseHtml(path, source) THEN FileAt(SitePath(path, source) \o <<".html">>)
    ELSE FileAt(WithIndex(SitePath(path, source)))

\* the audited documents whose content was processed to the end
Processed == { i \in DOMAIN audited : audited[i].outcome = "ok" }

\* the positions of the internal anchors of audited document i
InternalAnchors(i) ==
    { j \in DOMAIN audited[i].page.anchors :
        InternalPath(audited[i].page.anchors[j]) # NotInternal }

IsDead(x) == x.kind = "Dead link detected"
IsOrphan(x) == x.kind = "Orphan page"

\* number of issues equal to x
CountIssue(x) == Cardinality({ k \in DOMAIN issues : issues[k] = x })

\* number of entries (target, source occurrence) of the internal-link graph
RECURSIVE SumLen(_, _)
SumLen(f, ks) ==
    IF ks = {} THEN 0
    ELSE LET k == CHOOSE x \in ks : TRUE IN Len(f[k]) + SumLen(f, ks \ {k})

GraphEntries == SumLen(internal_links, DOMAIN internal_links)

AfterOrphans == pc \in {"external", "probe", "report", "done"}

(***************************************************************************)
(* C1: the score generate_report shows is max(0, 100 + the sum of the      *)
(* penalties of all recorded issues); every penalty is <= 0, so the score  *)
(* shown is never negative and never above 100.                            *)
(***************************************************************************)
C1_ReportedScore ==
    report.shown =>
        /\ report.score = Max(0, 100 + SumPenalty(issues))
        /\ \A k \in DOMAIN issues : issues[k].penalty <= 0
        /\ report.score >= 0
        /\ report.score <= 100
        /\ score = report.score

\* a report of a run whose penalties sum below -100: the floor acts
C1_Witness ==
    /\ report.shown
    /\ 100 + SumPenalty(issues) < 0
    /\ report.score = 0

(***************************************************************************)
(* C2: an internal href whose local path is an existing file, or is one    *)
(* once ".html" is appended, or is a directory containing index.html,      *)
(* never produces a "dead link" issue, root-relative or document-relative. *)
(***************************************************************************)
C2_ResolvingNeverDead ==
    \A i \in Processed : \A j \in InternalAnchors(i) :
        LET path == InternalPath(audited[i].page.anchors[j]) IN
        Resolves(path, audited[i].file) =>
            ~\E k \in DOMAIN issues :
                /\ IsDead(issues[k])
                /\ issues[k].context = audited[i].file
                /\ issues[k].href = path

\* a finished run that audited a link resolved by the index.html case and a
\* link resolved by the ".html" case
C2_Witness ==
    /\ pc = "done"
    /\ \E i \in Processed : \E j \in InternalAnchors(i) :
          LET path == InternalPath(audited[i].page.anchors[j]) IN
          /\ ~CaseFile(path, audited[i].file)
          /\ ~CaseHtml(path, audited[i].file)
          /\ CaseIndex(path, audited[i].file)
    /\ \E i \in Processed : \E j \in InternalAnchors(i) :
          LET path == InternalPath(audited[i].page.anchors[j]) IN
          /\ ~CaseFile(path, audited[i].file)
          /\ CaseHtml(path, audited[i].file)

(***************************************************************************)
(* C3: every occurrence of an internal href that matches none of the three *)
(* cases produces exactly one ERROR "dead link" issue with the source      *)
(* document, the href and penalty -10, and adds nothing to the graph; a    *)
(* run whose only issue is one such link reports 90.                       *)
(***************************************************************************)
DeadIssue(path, source) ==
    Issue("ERROR", "Dead link detected", path, 0, source, -10)

\* the paths of the internal anchors of audited document i
InternalPaths(i) ==
    { InternalPath(audited[i].page.anchors[j]) : j \in InternalAnchors(i) }

\* number of anchors of audited document i whose internal path is path
Occurrences(i, path) ==
    Cardinality({ j \in DOMAIN audited[i].page.anchors :
                    InternalPath(audited[i].page.anchors[j]) = path })

\* number of internal anchors of audited document i that resolve
ResolvedOf(i) ==
    Cardinality({ j \in InternalAnchors(i) :
                    Resolves(InternalPath(audited[i].page.anchors[j]), audited[i].file) })

\* number of entries of the graph whose source is doc
RECURSIVE EntriesOver(_, _)
EntriesOver(ks, doc) ==
    IF ks = {} THEN 0
    ELSE LET k == CHOOSE x \in ks : TRUE
         IN Cardinality({ m \in DOMAIN internal_links[k] : internal_links[k][m] = doc })
              + EntriesOver(ks \ {k}, doc)

EntriesFrom(doc) == EntriesOver(DOMAIN internal_links, doc)

C3_DeadLinkOnce ==
    /\ \A i \in Processed : \A path \in InternalPaths(i) :
          ~Resolves(path, audited[i].file) =>
             /\ CountIssue(DeadIssue(path, audited[i].file)) = Occurrences(i, path)
             /\ \A k \in DOMAIN issues :
                   (IsDead(issues[k]) /\ issues[k].context = audited[i].file
                      /\ issues[k].href = path)
                   => issues[k] = DeadIssue(path, audited[i].file)
    /\ \A i \in Processed : EntriesFrom(audited[i].file) = ResolvedOf(i)
    /\ (report.shown /\ Len(issues) = 1 /\ IsDead(issues[1])) => report.score = 90

\* a report whose only issue is one dead link
C3_Witness ==
    /\ report.shown
    /\ Len(issues) = 1
    /\ IsDead(issues[1])
    /\ GraphEntries > 0

(***************************************************************************)
(* C4: after all documents are processed, every discovered document that   *)
(* is not the home document, is not ignore-listed and whose relative path  *)
(* is not a key of the graph has exactly one WARN "orphan page" issue,     *)
(* penalty -5.                                                             *)
(***************************************************************************)
OrphanIssue(doc) == Issue("WARN", "Orphan page", <<>>, 0, doc, -5)

OrphanIssuesOf(doc) ==
    { k \in DOMAIN issues : IsOrphan(issues[k]) /\ issues[k].context = doc }

Candidate(doc) == doc # IndexHtml /\ ~should_ignore_file(doc)

LinksTo(i, doc) ==
    /\ i \in Processed
    /\ \E path \in InternalPaths(i) :
          /\ Resolves(path, audited[i].file)
          /\ TargetDoc(path, audited[i].file) = doc

C5_LinkedNeverOrphan ==
    /\ (\E k \in DOMAIN issues : IsOrphan(issues[k])) =>
          /\ pc \notin {"scan", "audit"}
          /\ Len(audited) = Len(files)
          /\ Len(files) = Cardinality(Discovered(site))
    /\ \A doc \in Discovered(site) :
          OrphanIssuesOf(doc) # {} => \A i \in DOMAIN audited : ~LinksTo(i, doc)

\* a finished run in which a document's only inbound link comes from a
\* document audited after it
C5_Witness ==
    /\ pc = "done"
    /\ \E i, j \in DOMAIN audited :
          /\ i < j
          /\ audited[i].file # IndexHtml
          /\ LinksTo(j, audited[i].file)
          /\ \A m \in DOMAIN audited : m # j => ~LinksTo(m, audited[i].file)
          /\ OrphanIssuesOf(audited[i].file) = {}

(***************************************************************************)
(* C6: every discovered document other than the home document and the      *)
(* ignore-listed ones that is not flagged "orphan page" is linked to by a  *)
(* document other than itself (a page whose only inbound link is its own   *)
(* link to itself counts as unreachable).                                  *)
(***************************************************************************)
C6_UnflaggedHasOtherSource ==
    AfterOrphans =>
        \A doc \in Discovered(site) :
            (Candidate(doc) /\ OrphanIssuesOf(doc) = {}) =>
                \E i \in DOMAIN audited : audited[i].file # doc /\ LinksTo(i, doc)

(***************************************************************************)
(* C7: an external URL referenced N >= 1 times is probed exactly once, no  *)
(* retry, and yields at most one issue: when its status is >= 400, exactly *)
(* one ERROR "external dead link" with context GLOBAL and penalty -5.      *)
(***************************************************************************)
\* the issues recorded for URL u by the external check
GlobalIssuesOf(u) ==
    { k \in DOMAIN issues : issues[k].context = GLOBAL /\ issues[k].href = u }

\* number of anchors of the audited documents that reference URL u
RECURSIVE References(_, _)
References(u, n) ==
    IF n = 0 THEN 0
    ELSE References(u, n - 1) +
         (IF n \in Processed
          THEN Cardinality({ j \in DOMAIN audited[n].page.anchors :
                              ExternalUrl(audited[n].page.anchors[j]) = u })
          ELSE 0)

Referenced ==
    UNION { { ExternalUrl(audited[i].page.anchors[j]) :
                j \in DOMAIN audited[i].page.anchors } : i \in Processed }
      \ {NotInternal}

C7_ProbedOnce ==
    /\ \A u \in DOMAIN futures :
          /\ probes[u] = (IF futures[u].st = "pending" THEN 0 ELSE 1)
          /\ Cardinality(GlobalIssuesOf(u)) <= 1
          /\ futures[u].st # "taken" => GlobalIssuesOf(u) = {}
          /\ (futures[u].st = "taken" /\ ~futures[u].raised
                /\ futures[u].code >= 400) =>
                CountIssue(Issue("ERROR", "External dead link", u,
                                 futures[u].code, GLOBAL, -5)) = 1
    /\ pc \in {"probe", "report", "done"} => DOMAIN futures = Referenced
    /\ pc \in {"report", "done"} => \A u \in Referenced : probes[u] = 1

\* a finished run in which a URL with status >= 400 is referenced by two
\* documents and a second such URL twice or more by one document
C7_Witness ==
    /\ pc = "done"
    /\ \E u \in DOMAIN futures :
          /\ References(u, Len(audited)) >= 2
          /\ ~futures[u].raised
          /\ futures[u].code >= 400
          /\ Cardinality(GlobalIssuesOf(u)) = 1
          /\ \E i, j \in Processed :
                /\ i # j
                /\ \E m \in DOMAIN audited[i].page.anchors :
                      ExternalUrl(audited[i].page.anchors[m]) = u
                /\ \E m \in DOMAIN audited[j].page.anchors :
                      ExternalUrl(audited[j].page.anchors[m]) = u

(***************************************************************************)
(* C8: a probe that fails at transport level is recorded as exactly one    *)
(* WARN "external check failed" issue, context GLOBAL, penalty 0, never as *)
(* an ERROR, and leaves the score unchanged; a probe with a status below   *)
(* 400 records no issue.                                                   *)
(***************************************************************************)
C8_TransportFailureIsWarn ==
    /\ \A u \in DOMAIN futures :
          futures[u].st = "taken" =>
             /\ futures[u].raised =>
                   /\ Cardinality(GlobalIssuesOf(u)) = 1
                   /\ CountIssue(Issue("WARN", "External check failed", u, 0,
                                       GLOBAL, 0)) = 1
             /\ (~futures[u].raised /\ futures[u].code < 400) =>
                   GlobalIssuesOf(u) = {}
    /\ pc = "probe" => score = 100 + SumPenalty(issues)

\* a finished run with a probe that raised and a probe that returned a
\* status below 400
C8_Witness ==
    /\ pc = "done"
    /\ \E u \in DOMAIN futures : futures[u].raised
    /\ \E u \in DOMAIN futures : ~futures[u].raised /\ futures[u].code < 400
    /\ \A k \in DOMAIN issues : issues[k].context = GLOBAL => issues[k].level = "WARN"
    /\ Len(issues) = 2
    /\ report.score = 95

(***************************************************************************)
(* C9: every run eventually reaches generate_report and produces a report, *)
(* whatever the corpus and the probe outcomes, also when every document    *)
(* fails to read or parse and every probe fails.                           *)
(***************************************************************************)
\* the steps main() and the workers have taken: the phase reached, the
\* documents audited, and how far each future has come
PhaseIndex ==
    CASE pc = "scan" -> 0
      [] pc = "audit" -> 1
      [] pc = "external" -> 2
      [] pc = "probe" -> 3
      [] pc = "report" -> 4
      [] pc = "done" -> 5
      [] pc = "crashed" -> 5

FutureRank(u) ==
    CASE futures[u].st = "pending" -> 0
      [] futures[u].st = "running" -> 1
      [] futures[u].st = "done" -> 2
      [] futures[u].st = "taken" -> 3

RECURSIVE SumRank(_)
SumRank(us) ==
    IF us = {} THEN 0
    ELSE LET u == CHOOSE x \in us : TRUE IN FutureRank(u) + SumRank(us \ {u})

Progress == PhaseIndex + Len(audited) + SumRank(DOMAIN futures)

\* the main thread and the pool's workers keep running, and a probe ends
\* within its timeout (line 202)
FairSpec == Init /\ [][Next]_vars /\ WF_vars(Next)

\* Until the report is printed some step is always possible (no exception
\* ends the run), every step advances Progress, and Progress is bounded:
\* under FairSpec the run reaches "done", where the report has been printed.
C9_AlwaysReports ==
    /\ [](pc = "done" \/ ENABLED Next)
    /\ [](pc = "done" => report.shown)
    /\ [](Progress <= 5 + Cardinality(Discovered(site)) + 3 * Cardinality(external_links))
    /\ [][Progress' > Progress]_vars

(***************************************************************************)
(* C10: when reading, parsing or processing a document fails, exactly one  *)
(* ERROR issue is recorded for that document and no other issue, and no    *)
(* graph entry and no external URL originating from that document remains  *)
(* recorded, wherever the failure occurs; the remaining documents are      *)
(* still processed.                                                        *)
(***************************************************************************)
FailedIssue(doc) == Issue("ERROR", "Failed to process file", <<>>, 0, doc, 0)

C10_FailedDocLeavesNothing ==
    /\ \A i \in DOMAIN audited :
          audited[i].outcome # "ok" =>
             /\ CountIssue(FailedIssue(audited[i].file)) = 1
             /\ \A k \in DOMAIN issues :
                   (issues[k].context = audited[i].file /\ ~IsOrphan(issues[k]))
                   => issues[k] = FailedIssue(audited[i].file)
             /\ \A key \in DOMAIN internal_links :
                   \A m \in DOMAIN internal_links[key] :
                      internal_links[key][m] # audited[i].file
             /\ \A u \in external_links :
                   \E j \in DOMAIN audited :
                      /\ audited[j].outcome = "ok"
                      /\ \E m \in DOMAIN audited[j].page.anchors :
                            ExternalUrl(audited[j].page.anchors[m]) = u
    /\ pc # "audit" => Len(audited) = Len(files)

(***************************************************************************)
(* C11: two runs over the same file tree with the same per-URL probe       *)
(* outcomes yield the same issue list in the same order, the same top-10   *)
(* slice and the same score, whatever the order in which the probes        *)
(* complete.                                                               *)
(***************************************************************************)
IsGlobal(i) == i.context = GLOBAL
NotGlobal(i) == i.context # GLOBAL

\* the issues recorded before check_external_links was called
BeforeProbes == SelectSeq(issues, NotGlobal)

\* the auditor as check_external_links finds it
AtSubmit ==
    [issues |-> BeforeProbes, score |-> InitialScore + SumPenalty(BeforeProbes),
     internal_links |-> internal_links, external_links |-> external_links,
     exc |-> FALSE]

\* lines 191-198 over the completion order ord, with the outcomes the
\* probes of this run had
RECURSIVE CollectIn(_, _)
CollectIn(st, ord) ==
    IF ord = <<>> THEN st
    ELSE CollectIn(collect(st, Head(ord), futures[Head(ord)]), Tail(ord))

\* lines 237-238 for an issue list q
TopOf(q) == SubSeq(sorted_issues(q), 1, IF Len(q) < TopN THEN Len(q) ELSE TopN)

C11_SameIssuesAnyOrder ==
    pc = "done" =>
        \A ord \in Orders(DOMAIN futures) :
            LET other == CollectIn(AtSubmit, ord) IN
            /\ other.issues = issues
            /\ TopOf(other.issues) = report.top
            /\ FinalScore(other.score) = report.score

(***************************************************************************)
(* C12: if the site root or the canonical document (index.html) cannot be  *)
(* located or read, the run aborts before any report is produced:          *)
(* generate_report is never reached.                                       *)
(***************************************************************************)
\* the canonical document cannot be located
NoCanonicalDocument == ~isfile(INDEX_FILE)

C12_FatalStartAborts ==
    NoCanonicalDocument => (pc \notin {"report", "done"} /\ ~report.shown)

(***************************************************************************)
(* C13: when the canonical document is absent the run proceeds with no     *)
(* base URL, and no absolute http/https href is classified as internal:    *)
(* every such non-ignored href goes to the external set and none produces  *)
(* an internal-link issue or a graph entry.                                *)
(***************************************************************************)
\* anchor j of audited document i is a non-ignored absolute http(s) href
AbsoluteAnchor(i, j) ==
    LET href == Strip(audited[i].page.anchors[j]) IN
    href # <<>> /\ ~should_ignore_url(href) /\ IsHttp(href)

\* anchor j of audited document i is a non-ignored href without scheme
LocalAnchor(i, j) ==
    LET href == Strip(audited[i].page.anchors[j]) IN
    href # <<>> /\ ~should_ignore_url(href) /\ ~IsHttp(href)

\* the kinds of issue the internal-link analysis records
InternalKinds ==
    { "Link contains .html extension", "Link uses relative path",
      "Dead link detected", "Internal link uses absolute URL" }

C13_NoBaseNeverInternal ==
    NoCanonicalDocument =>
        /\ base_url = <<>>
        /\ \A i \in Processed :
              LET doc == audited[i].file
                  anchors == audited[i].page.anchors
              IN /\ \A j \in DOMAIN anchors :
                       AbsoluteAnchor(i, j) => Strip(anchors[j]) \in external_links
                 /\ \A k \in DOMAIN issues :
                       (issues[k].context = doc /\ issues[k].kind \in InternalKinds)
                       => \E j \in DOMAIN anchors :
                             LocalAnchor(i, j) /\ issues[k].href = Strip(anchors[j])
                 /\ EntriesFrom(doc) =
                       Cardinality({ j \in DOMAIN anchors :
                           LocalAnchor(i, j) /\ Resolves(Strip(anchors[j]), doc) })

\* a finished run over a tree without index.html in which a document linked
\* to the site's own absolute URL, and that URL was probed
C13_Witness ==
    /\ pc = "done"
    /\ report.shown
    /\ NoCanonicalDocument
    /\ \E i \in Processed : \E j \in DOMAIN audited[i].page.anchors :
          audited[i].page.anchors[j] = AbsA
    /\ AbsA \in DOMAIN futures
    /\ futures[AbsA].st = "taken"

(***************************************************************************)
(* C14: a probe that times out or fails never blocks or cancels another    *)
(* probe: every URL of the external set gets exactly one outcome consumed  *)
(* by the collector, and outcomes are consumed in completion order, so a   *)
(* completed probe is recorded without waiting for an earlier-submitted    *)
(* probe that is still running.                                            *)
(***************************************************************************)
\* the futures a step changes
Changed == { u \in DOMAIN futures : u \in DOMAIN futures' /\ futures'[u] # futures[u] }

C14_SiblingsIndependent ==
    \* a completed probe can be consumed at once, whatever the other
    \* futures are doing
    /\ [](\A u \in DOMAIN futures :
             (pc = "probe" /\ futures[u].st = "done") => ENABLED as_completed(u))
    \* the head of the queue starts as soon as a worker is free
    /\ [](\A u \in DOMAIN futures :
             (/\ pc = "probe"
              /\ futures[u].st = "pending"
              /\ \A v \in DOMAIN futures : futures[v].seq < futures[u].seq
                                              => futures[v].st # "pending"
              /\ Cardinality(Running) < max_workers)
             => ENABLED worker_start(u))
    \* when the collector returns every URL has been consumed, after one probe
    /\ [](pc \in {"report", "done"} =>
             /\ DOMAIN futures = external_links
             /\ \A u \in external_links : futures[u].st = "taken" /\ probes[u] = 1)
    \* a step of one probe leaves the other futures as they are, and a
    \* consumed future is never consumed again
    /\ [][ /\ pc = "probe" => Cardinality(Changed) <= 1
           /\ \A u \in DOMAIN futures :
                 futures[u].st = "taken" => futures'[u] = futures[u] ]_vars

\* a failed probe has been recorded while a probe submitted before it is
\* still running
C14_Witness ==
    /\ pc = "probe"
    /\ \E u, v \in DOMAIN futures :
          /\ futures[u].seq < futures[v].seq
          /\ futures[u].st = "running"
          /\ futures[v].st = "taken"
          /\ futures[v].raised
          /\ GlobalIssuesOf(v) # {}

(***************************************************************************)
(* C15: issue recording during the concurrent external check is            *)
(* serialised: only the collector records, one completed future at a time, *)
(* so for every interleaving of the workers the issue list grows by        *)
(* exactly one entry per URL whose probe returned >= 400 or failed, and    *)
(* the score drops by exactly 5 per URL with status >= 400.                *)
(***************************************************************************)
\* the URLs whose probe was consumed with a status >= 400
DeadUrls ==
    { u \in DOMAIN futures :
        futures[u].st = "taken" /\ ~futures[u].raised /\ futures[u].code >= 400 }

\* the URLs whose probe was consumed as a failure
FailedUrls == { u \in DOMAIN futures : futures[u].st = "taken" /\ futures[u].raised }

\* a step of a worker thread: a future starts running or completes
WorkerStep ==
    \E u \in DOMAIN futures :
        /\ u \in DOMAIN futures'
        /\ futures'[u].st # futures[u].st
        /\ futures[u].st \in {"pending", "running"}

C15_RecordingSerialised ==
    \* no update is lost, in every state of every interleaving
    /\ [](pc \in {"probe", "report"} =>
             /\ Len(SelectSeq(issues, IsGlobal))
                   = Cardinality(DeadUrls) + Cardinality(FailedUrls)
             /\ Len(issues) = Len(BeforeProbes) + Cardinality(DeadUrls)
                                 + Cardinality(FailedUrls)
             /\ score = InitialScore + SumPenalty(BeforeProbes) - 5 * Cardinality(DeadUrls))
    \* the worker threads never write the issue list or the score, and the
    \* collector appends one issue at a time
    /\ [][ /\ WorkerStep => (issues' = issues /\ score' = score)
           /\ pc = "probe" => Len(issues') <= Len(issues) + 1 ]_vars

\* the collector has returned from a check in which one probe answered with
\* a status >= 400 and another failed
C15_Witness ==
    /\ pc = "report"
    /\ Cardinality(DeadUrls) = 1
    /\ Cardinality(FailedUrls) = 1
    /\ score = InitialScore + SumPenalty(BeforeProbes) - 5

(***************************************************************************)
(* The external check of a site whose home page links to more external     *)
(* URLs than the pool has workers.  The run is taken up where line 190 has *)
(* submitted the futures (the URLs are interchangeable, so one submission  *)
(* order stands for all) and is followed until MaxAnswered probes have     *)
(* answered.                                                               *)
(***************************************************************************)
PoolUrl(i) == <<"https://", "ext.com", "/", ToString(i)>>

PoolOrder == [i \in 1..(max_workers + ExtraUrls) |-> PoolUrl(i)]

PoolSite ==
    [ files |-> { IndexHtml },
      canonical |-> SiteUrl,
      hrefs |-> { PoolOrder[i] : i \in DOMAIN PoolOrder } ]

PoolPage == [h1s |-> 1, schema |-> TRUE, anchors |-> PoolOrder]

\* the auditor SEOAuditor.__init__ constructs
NewAuditor ==
    [issues |-> <<>>, score |-> InitialScore, internal_links |-> <<>>,
     external_links |-> {}, exc |-> FALSE]

PoolInit ==
    /\ site = PoolSite
    /\ base_url = LoadBaseUrl(PoolSite)
    /\ pc = "probe"
    /\ files = << join(ROOT_DIR, IndexHtml) >>
    /\ next = 2
    /\ \E st \in { check_orphans_result(
                      audit_file_result(NewAuditor, files[1], PoolPage, TRUE), files) } :
          /\ internal_links = st.internal_links
          /\ external_links = st.external_links
          /\ score = st.score
          /\ issues = st.issues
    /\ futures = Submitted(PoolOrder)
    /\ report = NoReport
    /\ audited = << [file |-> IndexHtml, page |-> PoolPage, outcome |-> "ok"] >>
    /\ probes = [u \in DOMAIN futures |-> 0]
    /\ budget = 0
    /\ element = <<>>
    /\ original = <<>>
    /\ runs = <<>>

PoolNext ==
    \/ \E u \in DOMAIN futures : worker_start(u)
    \/ \E u \in DOMAIN futures : check_url_returns(u)
    \/ \E u \in DOMAIN futures : check_url_raises(u)
    \/ \E u \in DOMAIN futures : as_completed(u)

PoolSpec == PoolInit /\ [][PoolNext]_vars

(***************************************************************************)
(* C16: during external link checking at most 10 probes are in flight at   *)
(* any moment, whatever the number of URLs in the external set, and the    *)
(* URLs beyond the pool size wait until a worker is free.                  *)
(***************************************************************************)
C16_PoolBound ==
    /\ [](Cardinality(Running) <= 10)
    \* a URL beyond the pool size has started only after as many earlier
    \* probes have answered
    /\ [](\A u \in DOMAIN futures :
             (futures[u].seq > 10 /\ futures[u].st # "pending")
             => Cardinality(Answered \ {u}) >= futures[u].seq - 10)
    \* a probe starts only while fewer than 10 are in flight
    /\ [][ \A u \in DOMAIN futures :
              (futures[u].st = "pending" /\ futures'[u].st = "running")
              => Cardinality(Running) < 10 ]_vars

\* the pool is full again after the URL submitted eleventh has started
C16_Witness ==
    /\ Cardinality(DOMAIN futures) > 10
    /\ Cardinality(Running) = 10
    /\ \E u \in DOMAIN futures : futures[u].seq > 10 /\ futures[u].st = "running"

(***************************************************************************)
(* C17: the sequential phase completes before the concurrent one begins:   *)
(* no external probe is submitted until audit_file has returned for every  *)
(* discovered document, and from then on (orphan detection, external       *)
(* checking, report) the internal-link graph, the external set and the     *)
(* document list are never modified.                                       *)
(***************************************************************************)
\* audit_file has returned for every discovered document
ScanningComplete ==
    /\ pc # "scan"
    /\ Len(audited) = Len(files)
    /\ { audited[i].file : i \in DOMAIN audited } = Discovered(site)

C17_SequentialBeforeConcurrent ==
    /\ []((pc \in {"external", "probe", "report", "done"} \/ DOMAIN futures # {})
             => ScanningComplete)
    /\ [][ ScanningComplete =>
              /\ internal_links' = internal_links
              /\ external_links' = external_links
              /\ files' = files ]_vars

\* probes are in flight over a graph and an external set that two audited
\* documents built
C17_Witness ==
    /\ pc = "probe"
    /\ Running # {}
    /\ Len(audited) >= 2
    /\ DOMAIN internal_links # {}
    /\ Cardinality(external_links) >= 1

(***************************************************************************)
(* C18: for an internal href carrying a '#fragment' and/or '?query'        *)
(* suffix, the suffix is stripped before resolving: the link is flagged    *)
(* dead iff the stripped path fails all three existence checks, and when   *)
(* it resolves the source document is recorded as inbound under the same   *)
(* graph key as for the suffix-free href.                                  *)
(***************************************************************************)
\* the href without its fragment and query
Stripped(href) == SplitFirst(SplitFirst(href, "#"), "?")

\* a root-relative href with a fragment or query suffix whose suffix-free
\* part is a link the audit follows
SuffixedInternal(href) ==
    /\ StartsWith(href, <<"/">>)
    /\ Stripped(href) # href
    /\ ~should_ignore_url(Stripped(href))

C18_SuffixStripped ==
    \A i \in Processed : \A j \in DOMAIN audited[i].page.anchors :
        LET href == Strip(audited[i].page.anchors[j])
            doc == audited[i].file
        IN SuffixedInternal(href) =>
              /\ (\E k \in DOMAIN issues :
                     IsDead(issues[k]) /\ issues[k].context = doc /\ issues[k].href = href)
                 <=> ~Resolves(Stripped(href), doc)
              /\ Resolves(Stripped(href), doc) =>
                    /\ TargetDoc(Stripped(href), doc) \in DOMAIN internal_links
                    /\ \E m \in DOMAIN internal_links[TargetDoc(Stripped(href), doc)] :
                          internal_links[TargetDoc(Stripped(href), doc)][m] = doc

(***************************************************************************)
(* C19: a non-ignored http/https href that starts with the base URL is     *)
(* treated as an internal link on the remainder after that prefix          *)
(* (resolved and added to the graph, or flagged dead), is never added to   *)
(* the external set, and yields exactly one WARN "internal link uses       *)
(* absolute URL", penalty -2; an http/https href that does not start with  *)
(* the base URL is only added to the external set and never produces an    *)
(* internal-link issue.                                                    *)
(***************************************************************************)
AbsoluteIssue(href, doc) ==
    Issue("WARN", "Internal link uses absolute URL", href, 0, doc, -2)

\* number of anchors of audited document i whose href is href
HrefCount(i, href) ==
    Cardinality({ j \in DOMAIN audited[i].page.anchors :
                    Strip(audited[i].page.anchors[j]) = href })

\* the part of an absolute href after the base URL
Remainder(href) == SubSeq(href, Len(base_url) + 1, Len(href))

C19_AbsoluteHrefs ==
    \A i \in Processed : \A j \in DOMAIN audited[i].page.anchors :
        LET href == Strip(audited[i].page.anchors[j])
            doc == audited[i].file
        IN AbsoluteAnchor(i, j) =>
           IF base_url # <<>> /\ StartsWith(href, base_url)
           THEN /\ href \notin external_links
                /\ CountIssue(AbsoluteIssue(href, doc)) = HrefCount(i, href)
                /\ IF Resolves(Remainder(href), doc)
                   THEN /\ TargetDoc(Remainder(href), doc) \in DOMAIN internal_links
                        /\ \E m \in DOMAIN internal_links[TargetDoc(Remainder(href), doc)] :
                              internal_links[TargetDoc(Remainder(href), doc)][m] = doc
                        /\ CountIssue(DeadIssue(Remainder(href), doc)) = 0
                   ELSE CountIssue(DeadIssue(Remainder(href), doc))
                           = Occurrences(i, Remainder(href))
           ELSE /\ href \in external_links
                /\ \A k \in DOMAIN issues :
                      issues[k].kind \in InternalKinds => issues[k].href # href

\* a finished run that audited an absolute href of the site, recorded in the
\* graph with its warning, and an href of another host, held in the
\* external set
C19_Witness ==
    /\ pc = "done"
    /\ base_url # <<>>
    /\ \E i \in Processed :
          /\ HrefCount(i, AbsA) = 1
          /\ CountIssue(AbsoluteIssue(AbsA, audited[i].file)) = 1
          /\ AHtml \in DOMAIN internal_links
    /\ \E i \in Processed : HrefCount(i, Ext1) >= 1 /\ Ext1 \in external_links
    /\ AbsA \notin external_links

(***************************************************************************)
(* C20: resolution tries the direct file, then the path with ".html"       *)
(* appended, then index.html in the directory, and stops at the first that *)
(* succeeds; the graph key is the root-relative path of the file that      *)
(* check found, not the raw href: "/x" and "/x.html" share the key         *)
(* "x.html", and "/x" is recorded under "x.html" when "x/index.html"       *)
(* exists as well.                                                         *)
(***************************************************************************)
\* the first of the three checks that succeeds for an internal href
FirstCheck(path, source) ==
    IF CaseFile(path, source) THEN "file"
    ELSE IF CaseHtml(path, source) THEN "html"
    ELSE IF CaseIndex(path, source) THEN "index"
    ELSE "none"

\* the root-relative path of the file that check found
FoundFile(path, source) ==
    CASE FirstCheck(path, source) = "file" -> FileAt(SitePath(path, source))
      [] FirstCheck(path, source) = "html" ->
            FileAt(SitePath(path, source) \o <<".html">>)
      [] FirstCheck(path, source) = "index" ->
            FileAt(WithIndex(SitePath(path, source)))
      [] OTHER -> <<>>

\* number of entries of doc in the list under key
InboundCount(key, doc) ==
    IF key \in DOMAIN internal_links
    THEN Cardinality({ m \in DOMAIN internal_links[key] :
                         internal_links[key][m] = doc })
    ELSE 0

\* for each anchor of audited document i, the file the checks lead to
\* (<<>> for an anchor that is not internal or does not resolve)
FoundFiles(i) ==
    [ j \in DOMAIN audited[i].page.anchors |->
        IF InternalPath(audited[i].page.anchors[j]) = NotInternal THEN <<>>
        ELSE FoundFile(InternalPath(audited[i].page.anchors[j]), audited[i].file) ]

C20_KeyIsFoundFile ==
    /\ DOMAIN internal_links \subseteq site.files
    /\ \A i \in Processed :
          With(FoundFiles(i), LAMBDA found :
              \A key \in site.files :
                  InboundCount(key, audited[i].file)
                     = Cardinality({ j \in DOMAIN found : found[j] = key }))

\* a finished run on the site with x.html and x/index.html where a document
\* linked "/x" and "/x.html": both entries are under "x.html"
C20_Witness ==
    /\ pc = "done"
    /\ {XHtml, XIndexHtml} \subseteq site.files
    /\ \E i \in Processed :
          /\ Occurrences(i, <<"/", "x">>) = 1
          /\ Occurrences(i, <<"/", "x", ".html">>) = 1
          /\ InboundCount(XHtml, audited[i].file) = 2
    /\ XIndexHtml \notin DOMAIN internal_links

(***************************************************************************)
(* C21: for every internal href, resolving or dead, a WARN "link contains  *)
(* extension" (-2) is recorded when the href ends with ".html" and a WARN  *)
(* "link uses relative path" (-2) when it does not start with "/"; both    *)
(* are recorded in addition to, and before, the dead-link ERROR of the     *)
(* same href.                                                              *)
(***************************************************************************)
ExtensionIssue(path, source) ==
    Issue("WARN", "Link contains .html extension", path, 0, source, -2)

RelativeIssue(path, source) ==
    Issue("WARN", "Link uses relative path", path, 0, source, -2)

\* number of issues equal to x among the first n issues
CountUpTo(x, n) == Cardinality({ k \in 1..n : issues[k] = x })

C21_WarningsAlways ==
    \A i \in Processed : \A path \in InternalPaths(i) :
        LET doc == audited[i].file IN
        /\ EndsWith(path, <<".html">>) =>
              /\ CountIssue(ExtensionIssue(path, doc)) = Occurrences(i, path)
              /\ \A k \in DOMAIN issues :
                    issues[k] = DeadIssue(path, doc) =>
                       CountUpTo(ExtensionIssue(path, doc), k - 1)
                          >= CountUpTo(DeadIssue(path, doc), k)
        /\ ~StartsWith(path, <<"/">>) =>
              /\ CountIssue(RelativeIssue(path, doc)) = Occurrences(i, path)
              /\ \A k \in DOMAIN issues :
                    issues[k] = DeadIssue(path, doc) =>
                       CountUpTo(RelativeIssue(path, doc), k - 1)
                          >= CountUpTo(DeadIssue(path, doc), k)

\* a processed document with the dead, relative href "missing.html": the two
\* warnings and then the dead-link error
C21_Witness ==
    \E i \in Processed :
        LET doc == audited[i].file
            path == <<"missing", ".html">>
        IN /\ Occurrences(i, path) = 1
           /\ ~Resolves(path, doc)
           /\ \E k \in DOMAIN issues :
                 /\ issues[k] = DeadIssue(path, doc)
                 /\ CountUpTo(ExtensionIssue(path, doc), k - 1) = 1
                 /\ CountUpTo(RelativeIssue(path, doc), k - 1) = 1

(***************************************************************************)
(* C22: in every state before the report is rendered the running score is  *)
(* exactly 100 plus the sum of the penalties of the issues recorded so     *)
(* far; it never increases, may be negative, and is clamped to 0 only by   *)
(* generate_report, never by _add_issue.                                   *)
(***************************************************************************)
\* main() has not called generate_report yet
BeforeReport == pc \in {"scan", "audit", "external", "probe", "report"}

\* the score the recorded penalties add up to
Accumulated(q) == InitialScore + SumPenalty(q)

C22_ScoreIsRunningSum ==
    /\ [](BeforeReport => score = Accumulated(issues))
    /\ [][ /\ (pc # "report" => score' <= score)
           /\ (score' # Accumulated(issues') =>
                  /\ pc = "report"
                  /\ score' = 0
                  /\ issues' = issues) ]_vars

\* the running score is below 0 while documents are still being handled
C22_Witness ==
    /\ BeforeReport
    /\ issues # <<>>
    /\ score < 0
    /\ score = Accumulated(issues)

(***************************************************************************)
(* C23: the report lists min(10, n) of the n recorded issues, every ERROR  *)
(* before any WARN and issues of one level in insertion order; it shows    *)
(* the remainder n - 10 exactly when n > 10; rendering leaves the stored   *)
(* list as it was.                                                         *)
(***************************************************************************)
\* the place of issue k in the listing: the ERROR issues in insertion order,
\* then the others in insertion order
Place(k) ==
    IF issues[k].level = "ERROR"
    THEN Cardinality({ m \in 1..k : issues[m].level = "ERROR" })
    ELSE Cardinality({ m \in DOMAIN issues : issues[m].level = "ERROR" })
           + Cardinality({ m \in 1..k : issues[m].level # "ERROR" })

C23_ReportListing ==
    /\ [](report.shown =>
            /\ Len(report.top) = (IF Len(issues) < TopN THEN Len(issues) ELSE TopN)
            /\ \A k \in DOMAIN issues :
                  Place(k) <= TopN => report.top[Place(k)] = issues[k]
            /\ report.more = (IF Len(issues) > TopN THEN Len(issues) - TopN ELSE 0))
    /\ [][pc = "report" => issues' = issues]_vars

\* a report of more than ten issues in which a WARN recorded before an ERROR
\* is listed after it, or not at all
C23_Witness ==
    /\ report.shown
    /\ Len(issues) > TopN
    /\ report.more = Len(issues) - TopN
    /\ \E a, b \in DOMAIN issues :
          /\ a < b
          /\ issues[a].level = "WARN"
          /\ issues[b].level = "ERROR"
          /\ Place(b) <= TopN
          /\ Place(a) > Place(b)

(***************************************************************************)
(* C24: in every reachable state each key of the link graph is the         *)
(* root-relative path of an existing file that a resolution found, its     *)
(* inbound list is not empty, and every source in the list is a document   *)
(* with a link that resolves to the key; a dead link never creates a key.  *)
(***************************************************************************)
\* audited document i holds an internal anchor that resolves to key
HasLinkTo(i, key) ==
    \E j \in InternalAnchors(i) :
        /\ Resolves(InternalPath(audited[i].page.anchors[j]), audited[i].file)
        /\ FoundFile(InternalPath(audited[i].page.anchors[j]), audited[i].file) = key

C24_KeysAreResolvedTargets ==
    \A key \in DOMAIN internal_links :
        /\ key \in site.files
        /\ internal_links[key] # <<>>
        /\ \A m \in DOMAIN internal_links[key] :
              \E i \in DOMAIN audited :
                  /\ audited[i].file = internal_links[key][m]
                  /\ HasLinkTo(i, key)

\* a document with a dead link and a link that resolves was audited: the
\* graph has the key of the second and no other
C24_Witness ==
    \E i \in DOMAIN audited :
        /\ \E j \in InternalAnchors(i) :
              ~Resolves(InternalPath(audited[i].page.anchors[j]), audited[i].file)
        /\ \E key \in DOMAIN internal_links :
              /\ HasLinkTo(i, key)
              /\ DOMAIN internal_links = {key}

(***************************************************************************)
(* The link standardiser of the build pipeline, src/build.py.  An element  *)
(* is the sequence of its anchors in document order; an anchor is its href *)
(* (a token sequence, as above) and its rel attribute (the list of values  *)
(* BeautifulSoup gives a multi-valued attribute; empty when absent).       *)
(***************************************************************************)
\* number of _standardize_links passes over one element
MaxRuns == 2
\* number of anchors of an element
MaxAnchors == 1

\* the token of the site's own host (line 142)
SiteHost == "cursor-vip.pro"

\* href.startswith(prefix) for the prefixes of lines 139-140; "http" is the
\* start of the tokens "http://", "https://" and of a file name such as
\* http-guide.html
StartsHttp(href) == href # <<>> /\ Head(href) \in {"http://", "https://", "http"}

StartsSlashSlash(href) == StartsWith(href, <<"/", "/">>)

StartsSpecial(href) ==
    href # <<>> /\ Head(href) \in {"mailto:", "tel:", "javascript:", "data:"}

\* lines 143-148: the three values are appended to rel when missing
RECURSIVE AddMissing(_, _)
AddMissing(rel, updates) ==
    IF updates = <<>> THEN rel
    ELSE AddMissing(IF \E k \in DOMAIN rel : rel[k] = Head(updates)
                    THEN rel ELSE Append(rel, Head(updates)),
                    Tail(updates))

RelUpdates == <<"nofollow", "noopener", "noreferrer">>

\* s[:-5] of a string that ends with ".html" or with "/index": the token
\* ".html", or the token "index" (the "/" before it stays), is dropped
DropLast(s) == SubSeq(s, 1, Len(s) - 1)

\* lines 159-171: the clean, root-relative form of a local href
CleanUrl(href) ==
    LET h1 == IF EndsWith(href, <<".html">>)
              THEN (IF DropLast(href) = <<>> THEN <<"/">> ELSE DropLast(href))
              ELSE href
        h2 == IF EndsWith(h1, <<"/", "index">>) THEN DropLast(h1) ELSE h1
    IN IF ~StartsWith(h2, <<"/">>) THEN <<"/">> \o h2 ELSE h2

\* lines 136-172: the body of the loop over the anchors, for one anchor
StandardizeAnchor(a, convert_anchors) ==
    IF StartsHttp(a.href) \/ StartsSlashSlash(a.href) \/ StartsSpecial(a.href)
    THEN IF (IsHttp(a.href) \/ StartsSlashSlash(a.href))
            /\ ~Contains(a.href, <<SiteHost>>)
         THEN [a EXCEPT !.rel = AddMissing(@, RelUpdates)]
         ELSE a
    ELSE IF StartsWith(a.href, <<"#">>)
    THEN IF convert_anchors /\ a.href # <<"#">>
         THEN [a EXCEPT !.href = <<"/">> \o @]
         ELSE a
    ELSE [a EXCEPT !.href = CleanUrl(@)]

\* SmartExtractor._standardize_links, lines 133-172 (the anchors)
_standardize_links(el, convert_anchors) ==
    [k \in DOMAIN el |-> StandardizeAnchor(el[k], convert_anchors)]

\* the hrefs the pages are written with
BuildHrefs ==
    { <<"index", ".html">>, <<"a", ".html">>, <<"/", "index", ".html">>,
      <<"blog", "/", "index", ".html">>, <<"/", "blog", "/", "index">>,
      <<"/", "a">>, <<".html">>, <<"http", "-guide", ".html">>,
      <<"#", "s">>, <<"#">>, <<"mailto:", "me">>,
      <<"https://", "ext.com", "/", "p">>,
      <<"http://", "other.org">>,
      <<"/", "/", "cdn.com", "/", "x">>,
      <<"https://", SiteHost, "/", "a">>,
      <<"https://", "twitter.com", "/", "share", "?", "url=",
        "https://", SiteHost, "/">> }

\* the rel attributes they are written with
BuildRels ==
    { <<>>, <<"nofollow">>, <<"me">>, <<"noopener", "me", "noreferrer">> }

Anchors == [href : BuildHrefs, rel : BuildRels]

Elements == UNION { [1..n -> Anchors] : n \in 1..MaxAnchors }

\* a page was read (lines 97, 778); the auditor is not running
BuildInit ==
    /\ element \in Elements
    /\ original = element
    /\ runs = <<>>
    /\ site = PoolSite
    /\ base_url = <<>>
    /\ pc = "build"
    /\ files = <<>>
    /\ next = 1
    /\ internal_links = <<>>
    /\ external_links = {}
    /\ score = InitialScore
    /\ issues = <<>>
    /\ futures = <<>>
    /\ report = NoReport
    /\ audited = <<>>
    /\ probes = <<>>
    /\ budget = 0

\* get_nav, get_footer (lines 102, 112): the navigation and the footer are
\* standardised with convert_anchors=True
get_nav ==
    /\ Len(runs) < MaxRuns
    /\ element' = _standardize_links(element, TRUE)
    /\ runs' = Append(runs, [convert_anchors |-> TRUE, result |-> element'])
    /\ UNCHANGED <<original, site, base_url, pc, files, next, internal_links,
                   external_links, score, issues, futures, report, audited,
                   probes, budget>>

\* main, line 779: every page of the build is standardised with the default
\* convert_anchors=False
standardize_page ==
    /\ Len(runs) < MaxRuns
    /\ element' = _standardize_links(element, FALSE)
    /\ runs' = Append(runs, [convert_anchors |-> FALSE, result |-> element'])
    /\ UNCHANGED <<original, site, base_url, pc, files, next, internal_links,
                   external_links, score, issues, futures, report, audited,
                   probes, budget>>

BuildNext == get_nav \/ standardize_page

BuildSpec == BuildInit /\ [][BuildNext]_vars

(***************************************************************************)
(* C25: after _standardize_links has processed an element, every anchor    *)
(* whose href is an external link (http://, https:// or protocol-relative  *)
(* "//", and not pointing at the site itself) has a rel attribute holding  *)
(* nofollow, noopener and noreferrer, with the values it had before kept   *)
(* and none duplicated.                                                    *)
(***************************************************************************)
\* the host an absolute or protocol-relative href points at
Host(href) == IF StartsSlashSlash(href) THEN href[3] ELSE href[2]

IsExternalLink(href) ==
    /\ IsHttp(href) \/ StartsSlashSlash(href)
    /\ Host(href) # SiteHost

\* number of times value v occurs in a rel list
CountRel(v, rel) == Cardinality({ k \in DOMAIN rel : rel[k] = v })

RelValues(rel) == { rel[k] : k \in DOMAIN rel }

\* rel `new` is rel `old` with the three values, each added once when missing
Completed(old, new) ==
    /\ RelValues(new) = RelValues(old) \cup RelValues(RelUpdates)
    /\ \A v \in RelValues(new) :
          CountRel(v, new) = (IF CountRel(v, old) = 0 THEN 1 ELSE CountRel(v, old))

C25_ExternalLinksGetRel ==
    runs # <<>> =>
       \A k \in DOMAIN element :
           IsExternalLink(original[k].href) =>
              Completed(original[k].rel, element[k].rel)

(***************************************************************************)
(* C29: _standardize_links is idempotent on hrefs and rel attributes: for  *)
(* every href (relative or root-relative hrefs ending in ".html" or        *)
(* "/index", bare "index.html", fragments, external links) a second pass   *)
(* gives the href and rel the first pass gave.                             *)
(***************************************************************************)
C29_Idempotent ==
    \A k \in 2..Len(runs) :
        runs[k].convert_anchors = runs[k - 1].convert_anchors =>
           runs[k].result = runs[k - 1].result

(***************************************************************************)
(* C26: an absolute href equal to the base URL (the canonical URL without  *)
(* its trailing slash) is resolved to the home document index.html at the  *)
(* site root, whichever directory the source document lives in, and is     *)
(* never flagged as a dead link when the home document exists.             *)
(***************************************************************************)
C26_BaseUrlIsHome ==
    \A i \in Processed :
        (/\ base_url # <<>>
         /\ IndexHtml \in site.files
         /\ HrefCount(i, base_url) > 0) =>
           /\ CountIssue(DeadIssue(<<>>, audited[i].file)) = 0
           /\ InboundCount(IndexHtml, audited[i].file) >= HrefCount(i, base_url)

(***************************************************************************)
(* C27 (as claimed): every key of the link graph is the relative path of a *)
(* document of the discovered set (self.files); a link that resolves to a  *)
(* file the scanner excluded (ignore-listed file, file in a pruned         *)
(* directory, non-HTML file) creates no key.                               *)
(***************************************************************************)
\* the relative paths of the documents of self.files
FilesScanned == { relpath(files[k]) : k \in DOMAIN files }

C27_KeysAreDiscovered == DOMAIN internal_links \subseteq FilesScanned

(***************************************************************************)
(* C27 (amended): every key of the link graph is the root-relative path of *)
(* an existing file the resolver found, whether or not the scanner         *)
(* discovered it: a link that resolves to a file the scanner excluded      *)
(* creates a key for that file and is not flagged dead.                    *)
(***************************************************************************)
C27_KeysAreExistingFiles ==
    /\ DOMAIN internal_links \subseteq site.files
    /\ \A i \in Processed : \A j \in InternalAnchors(i) :
          LET path == InternalPath(audited[i].page.anchors[j])
              found == FoundFile(path, audited[i].file)
          IN (found # <<>> /\ found \notin FilesScanned) =>
                /\ found \in DOMAIN internal_links
                /\ CountIssue(DeadIssue(path, audited[i].file)) = 0

\* a finished run whose graph holds the keys of a non-HTML file and of an
\* ignore-listed file, neither of them in self.files
C27_Witness ==
    /\ pc = "done"
    /\ {StyleCss, Html404} \subseteq DOMAIN internal_links
    /\ StyleCss \notin FilesScanned
    /\ Html404 \notin FilesScanned

(***************************************************************************)
(* C30: the scanner and the orphan detector agree on which documents are   *)
(* ignore-listed: for every document the scanner included the detector's   *)
(* ignore-file test is false, so no discovered document other than the     *)
(* root index.html is exempted from orphan detection.                      *)
(***************************************************************************)
C30_IgnoreTestsAgree ==
    /\ \A doc \in FilesScanned : ~should_ignore_file(doc)
    /\ AfterOrphans =>
          \A doc \in FilesScanned :
              (doc # IndexHtml /\ doc \notin DOMAIN internal_links) =>
                 CountIssue(OrphanIssue(doc)) = 1

(***************************************************************************)
(* C28: in the issue list of every run the issues recorded while auditing  *)
(* documents precede the "orphan page" issues, which precede the GLOBAL    *)
(* issues of the external check; and the issues of a document audited      *)
(* earlier precede those of a document audited later.                      *)
(***************************************************************************)
\* the step of main() an issue was recorded in: 1 the audit loop, 2 the
\* orphan pass, 3 the external check
IssuePhase(x) ==
    IF x.context = GLOBAL THEN 3 ELSE IF IsOrphan(x) THEN 2 ELSE 1

\* the position in the audit loop of the document an issue is about
AuditedAt(x) == CHOOSE i \in DOMAIN audited : audited[i].file = x.context

C28_IssueOrderFollowsMain ==
    \A a, b \in DOMAIN issues :
        a < b =>
           /\ IssuePhase(issues[a]) <= IssuePhase(issues[b])
           /\ (IssuePhase(issues[a]) = 1 /\ IssuePhase(issues[b]) = 1) =>
                 AuditedAt(issues[a]) <= AuditedAt(issues[b])

\* a run with an issue of the audit loop, an orphan page after it and an
\* issue of the external check after that
C28_Witness ==
    \E a, b, c \in DOMAIN issues :
        /\ a < b
        /\ b < c
        /\ IssuePhase(issues[a]) = 1
        /\ IssuePhase(issues[b]) = 2
        /\ IssuePhase(issues[c]) = 3

====
